---- MODULE Spec2Model ----
(***************************************************************************)
(* Model of the ETL utility: the HTML table extraction routine             *)
(* (etl_package/extract/web_scraper.py) and the pipeline orchestrator      *)
(* (etl_package/pipelines/etl_pipeline.py) with the collaborators it       *)
(* calls (transform steps, PostgreSQLLoader).                              *)
(***************************************************************************)
EXTENDS Integers, Sequences, FiniteSets, TLC

(***************************************************************************)
(* Bounds of the explored inputs.                                          *)
(***************************************************************************)
MaxTables == 2
MaxRows == 3
MaxCells == 2

\* Visible cell texts, after get_text(strip=True), in sorted order.
TextOrder == <<"", "a">>
Texts == {TextOrder[i] : i \in 1..Len(TextOrder)}

\* A row-like element is the sequence of the texts of its td/th children,
\* a table-like element the sequence of its tr descendants, a parsed
\* document the sequence of its table elements, all in document order.
RowElems == UNION {[1..n -> Texts] : n \in 0..MaxCells}
TableElems == UNION {[1..n -> RowElems] : n \in 0..MaxRows}

(***************************************************************************)
(* Values.                                                                 *)
(***************************************************************************)
\* Python's None.
None == [tag |-> "None"]

\* pd.DataFrame(rows, columns=columns): column names and rows of cells.
\* Cells built from Python strings give columns of dtype object.
DataFrame(rows, columns) ==
  [tag |-> "DataFrame", columns |-> columns, rows |-> rows,
   dtypes |-> [j \in 1..Len(columns) |-> "object"]]

\* pd.DataFrame(): no rows, no columns.
EmptyDataFrame == DataFrame(<<>>, <<>>)

IsDataFrame(v) == v.tag = "DataFrame"

\* df.shape[0], df.shape[1]
NRows(df) == Len(df.rows)
NCols(df) == Len(df.columns)

\* df.empty: some axis has length 0.
empty(df) == NRows(df) = 0 \/ NCols(df) = 0

(***************************************************************************)
(* manual_table_scraping                                                   *)
(***************************************************************************)
\* data: the rows of the table that yield at least one cell.
TableData(table) == SelectSeq(table, LAMBDA cells : cells # <<>>)

\* Mutant of UsableHeaders: one non-empty cell makes the row a header row.
UsableHeadersAny(potential_headers) ==
  \E j \in 1..Len(potential_headers) : potential_headers[j] # ""

\* all(isinstance(h, str) and len(h) > 0 for h in potential_headers)
UsableHeaders(potential_headers) ==
  \A j \in 1..Len(potential_headers) : potential_headers[j] # ""

\* Mutant of Headers: the positional names are numbered from 0.
HeadersFromZero(data) ==
  IF UsableHeaders(data[1])
    THEN data[1]
    ELSE [j \in 1..Len(data[1]) |-> "Colonne_" \o ToString(j - 1)]

\* headers: row 0, or the positional names when row 0 has an empty cell.
Headers(data) ==
  IF UsableHeaders(data[1])
    THEN data[1]
    ELSE [j \in 1..Len(data[1]) |-> "Colonne_" \o ToString(j)]

\* Mutant of DataRows: the header row is kept among the data rows.
DataRowsKeepHeader(data) == data

\* data_rows: the rows after the header row, or all rows.
DataRows(data) == IF UsableHeaders(data[1]) THEN Tail(data) ELSE data

\* Mutant of NormalizeRow: short rows are padded, long rows are not cut.
NormalizeRowNoCut(row, max_cols) ==
  IF Len(row) < max_cols
    THEN row \o [j \in 1..(max_cols - Len(row)) |-> ""]
    ELSE row

\* One iteration of "Uniformiser les lignes": extend with '' or slice.
NormalizeRow(row, max_cols) ==
  IF Len(row) < max_cols
    THEN row \o [j \in 1..(max_cols - Len(row)) |-> ""]
    ELSE IF Len(row) > max_cols THEN SubSeq(row, 1, max_cols) ELSE row

\* df of one table that has at least 2 rows with cells.
TableDf(table) ==
  LET data == TableData(table)
      headers == Headers(data)
      data_rows == DataRows(data)
      max_cols == Len(headers)
  IN DataFrame([i \in 1..Len(data_rows) |-> NormalizeRow(data_rows[i], max_cols)],
               headers)

\* The table passes "if not data or len(data) < 2: continue" and
\* "if not df.empty".
IsCandidate(table) ==
  /\ Len(TableData(table)) >= 2
  /\ ~empty(TableDf(table))

\* candidate_dfs after the loop over the tables, in document order.
RECURSIVE CandidateDfs(_)
CandidateDfs(tables) ==
  IF tables = <<>> THEN <<>>
  ELSE (IF IsCandidate(Head(tables)) THEN <<TableDf(Head(tables))>> ELSE <<>>)
       \o CandidateDfs(Tail(tables))

\* Mutant of AreaKey: the tables are compared by their row count alone.
AreaKeyRowsOnly(t) == NRows(t)

\* key=lambda t: t.shape[0] * t.shape[1]
AreaKey(t) == NRows(t) * NCols(t)

\* Python's max(seq, key=...): the first element whose key is maximal.
RECURSIVE PyMaxFrom(_, _)
PyMaxFrom(best, rest) ==
  IF rest = <<>> THEN best
  ELSE PyMaxFrom(IF AreaKey(Head(rest)) > AreaKey(best) THEN Head(rest) ELSE best,
                 Tail(rest))

\* Mutant of PyMax: of the elements whose key is maximal the last is
\* returned.
PyMaxLast(seq) ==
  seq[CHOOSE i \in 1..Len(seq) :
        /\ \A k \in 1..Len(seq) : AreaKey(seq[k]) <= AreaKey(seq[i])
        /\ \A k \in (i + 1)..Len(seq) : AreaKey(seq[k]) < AreaKey(seq[i])]

PyMax(seq) == PyMaxFrom(Head(seq), Tail(seq))

\* Mutant of manual_table_scraping: the first table without 2 rows with
\* cells ends the routine.
manual_table_scrapingStopsAtShort(tables) ==
  IF tables = <<>> THEN None
  ELSE IF \E t \in 1..Len(tables) : Len(TableData(tables[t])) < 2
    THEN LET short == CHOOSE t \in 1..Len(tables) :
                        /\ Len(TableData(tables[t])) < 2
                        /\ \A u \in 1..(t - 1) : Len(TableData(tables[u])) >= 2
             candidate_dfs == CandidateDfs(SubSeq(tables, 1, short - 1))
         IN IF candidate_dfs # <<>> THEN PyMax(candidate_dfs) ELSE None
  ELSE LET candidate_dfs == CandidateDfs(tables)
       IN IF candidate_dfs # <<>> THEN PyMax(candidate_dfs) ELSE None

manual_table_scraping(tables) ==
  IF tables = <<>> THEN None
  ELSE LET candidate_dfs == CandidateDfs(tables)
       IN IF candidate_dfs # <<>> THEN PyMax(candidate_dfs) ELSE None

\* Exceptions raised while the document is processed, inside the try block:
\* the argument is not a parsed document (AttributeError on find_all), or
\* memory runs out while the rows are collected.
ProcessingFailures == {"AttributeError", "MemoryError"}

\* manual_table_scraping's "except Exception": the error is logged, None
\* returned.
ScrapingExcept(exc) == None

(***************************************************************************)
(* scrape_cacao_ratings                                                    *)
(***************************************************************************)
\* Outcomes of requests.get + raise_for_status + BeautifulSoup.
FetchOutcomes == {"ok", "RequestException", "Exception"}

scrape_cacao_ratings(fetch, page) ==
  IF fetch # "ok" THEN EmptyDataFrame
  ELSE LET df == manual_table_scraping(page)
       IN IF df # None /\ ~empty(df) THEN df ELSE EmptyDataFrame

(***************************************************************************)
(* Python values and outcomes of calls.                                    *)
(***************************************************************************)
\* {}: the dict without keys.
EmptyDict == [k \in {} |-> ""]

\* Mutant of Get: the default is returned whatever the dict holds.
GetDefaultOnly(d, k, default) == default

\* d.get(k, default)
Get(d, k, default) == IF k \in DOMAIN d THEN d[k] ELSE default

\* Op(v), with v evaluated once, before Op is applied to it.
With(v, Op(_)) == CHOOSE y \in {Op(x) : x \in {v}} : TRUE

PyBool(b) == [tag |-> "bool", b |-> b]

\* A call that returned v, a call that raised an exception of class e.
Return(v) == [kind |-> "return", exc |-> "", value |-> v]
Raise(e) == [kind |-> "raise", exc |-> e, value |-> None]

\* f(df, **params) binds its arguments: every required name is given and
\* no unknown name is; Python raises TypeError otherwise.
Binds(params, required, accepted) ==
  /\ required \subseteq DOMAIN params
  /\ DOMAIN params \subseteq accepted

(***************************************************************************)
(* DataFrame helpers.                                                      *)
(***************************************************************************)
\* A missing cell (NaN / None / NaT). No scraped text is one.
NaN == "NaN"
IsNull(v) == v = NaN

Frame(columns, dtypes, rows) ==
  [tag |-> "DataFrame", columns |-> columns, rows |-> rows, dtypes |-> dtypes]

\* Positions of the columns called name; df[name] is a DataFrame, not a
\* Series, when there are several.
Positions(df, name) == {j \in 1..NCols(df) : df.columns[j] = name}
InColumns(df, name) == Positions(df, name) # {}
Duplicated(df, name) == Cardinality(Positions(df, name)) > 1

ColumnValues(df, j) == [i \in 1..NRows(df) |-> df.rows[i][j]]

\* df with the cells of column j replaced by col and its dtype by dtype.
SetColumn(df, j, col, dtype) ==
  Frame(df.columns,
        [df.dtypes EXCEPT ![j] = dtype],
        [i \in 1..NRows(df) |-> [df.rows[i] EXCEPT ![j] = col[i]]])

\* pd.concat([df, other], axis=1) for frames with the same row index.
ConcatColumns(df, other) ==
  Frame(df.columns \o other.columns,
        df.dtypes \o other.dtypes,
        [i \in 1..NRows(df) |-> df.rows[i] \o other.rows[i]])

\* df.drop(name, axis=1): every column called name is removed.
DropColumn(df, name) ==
  LET keep == SelectSeq([j \in 1..NCols(df) |-> j], LAMBDA j : df.columns[j] # name)
  IN Frame([k \in 1..Len(keep) |-> df.columns[keep[k]]],
           [k \in 1..Len(keep) |-> df.dtypes[keep[k]]],
           [i \in 1..NRows(df) |-> [k \in 1..Len(keep) |-> df.rows[i][keep[k]]]])

\* The cell texts of the tables the pipeline works on, as Python sorts
\* strings.
ValueOrder == <<"", "0", "1", "2", "3", "4", "6", "a">>
Values == {ValueOrder[i] : i \in 1..Len(ValueOrder)}

\* Position of a text in sorted order.
Rank(v) == CHOOSE r \in 1..Len(ValueOrder) : ValueOrder[r] = v

\* The distinct non-missing values of a column, sorted.
Levels(col) ==
  SelectSeq(ValueOrder, LAMBDA v : \E i \in 1..Len(col) : col[i] = v)

(***************************************************************************)
(* MissingValuesHandler.impute_missing_values                              *)
(***************************************************************************)
Occurrences(col, v) == Cardinality({i \in 1..Len(col) : col[i] = v})

\* df[column].mode(): the most frequent non-missing values, sorted.
Mode(col) ==
  SelectSeq(Levels(col),
            LAMBDA v : \A w \in Values : Occurrences(col, w) <= Occurrences(col, v))

\* fillna(method='ffill'), fillna(method='bfill')
FFill(col) ==
  [i \in 1..Len(col) |->
     IF \E k \in 1..i : ~IsNull(col[k])
       THEN col[CHOOSE k \in 1..i :
                  ~IsNull(col[k]) /\ \A m \in (k+1)..i : IsNull(col[m])]
       ELSE col[i]]

BFill(col) ==
  [i \in 1..Len(col) |->
     IF \E k \in i..Len(col) : ~IsNull(col[k])
       THEN col[CHOOSE k \in i..Len(col) :
                  ~IsNull(col[k]) /\ \A m \in i..(k-1) : IsNull(col[m])]
       ELSE col[i]]

FillNa(col, impute_value) ==
  [i \in 1..Len(col) |-> IF IsNull(col[i]) THEN impute_value ELSE col[i]]

\* isinstance(col_strategy, (int, float)): the numbers, given as texts.
NumberStrategies == {"0"}

\* pd.api.types.is_numeric_dtype
IsNumericDtype(dtype) == dtype \in {"bool", "int64", "float64"}

\* The number a cell of a numeric column holds.
NumberOf(t) ==
  CASE t = "0" -> 0 [] t = "1" -> 1 [] t = "2" -> 2 [] t = "3" -> 3
    [] t = "4" -> 4 [] t = "6" -> 6

\* The cells of a column that are not missing.
NotNull(col) == SelectSeq(col, LAMBDA v : ~IsNull(v))

RECURSIVE Total(_)
Total(col) == IF col = <<>> THEN 0 ELSE NumberOf(Head(col)) + Total(Tail(col))

\* The text of the number total / count.
Quotient(total, count) ==
  IF total % count = 0 THEN ToString(total \div count)
  ELSE ToString(total) \o "/" \o ToString(count)

\* df[column].mean(): missing cells are skipped; NaN when nothing is left.
Mean(col) ==
  LET present == NotNull(col)
  IN IF present = <<>> THEN NaN ELSE Quotient(Total(present), Len(present))

\* The k-th smallest number of a column without missing cells.
KthSmallest(present, k) ==
  CHOOSE n \in {NumberOf(present[i]) : i \in 1..Len(present)} :
    /\ Cardinality({i \in 1..Len(present) : NumberOf(present[i]) < n}) < k
    /\ k <= Cardinality({i \in 1..Len(present) : NumberOf(present[i]) <= n})

\* df[column].median(): missing cells are skipped; NaN when nothing is left.
Median(col) ==
  LET present == NotNull(col)
      n == Len(present)
  IN IF present = <<>> THEN NaN
     ELSE Quotient(KthSmallest(present, (n + 1) \div 2)
                     + KthSmallest(present, n \div 2 + 1), 2)

\* The body of the loop for one column with missing values. A column of
\* texts is not numeric, so 'mean' and 'median' fall through to the last
\* branch, the mode; fillna(None) raises ValueError. The mean and the
\* median of a numeric column that holds nothing are NaN and fill nothing.
ImputeColumn(col, dtype, col_strategy) ==
  IF col_strategy = "mean" /\ IsNumericDtype(dtype)
    THEN [col |-> FillNa(col, Mean(col)), exc |-> ""]
  ELSE IF col_strategy = "median" /\ IsNumericDtype(dtype)
    THEN [col |-> FillNa(col, Median(col)), exc |-> ""]
  ELSE IF col_strategy = "ffill" THEN [col |-> FFill(col), exc |-> ""]
  ELSE IF col_strategy = "bfill" THEN [col |-> BFill(col), exc |-> ""]
  ELSE IF col_strategy \in NumberStrategies
    THEN [col |-> FillNa(col, col_strategy), exc |-> ""]
  ELSE IF Mode(col) = <<>>
    THEN [col |-> col, exc |-> "ValueError"]
    ELSE [col |-> FillNa(col, Mode(col)[1]), exc |-> ""]

\* The loop over df.columns from position j on; df_imputed is the copy
\* being filled, df the argument the columns are read from. A duplicated
\* column name makes "df[column].isnull().sum() > 0" a Series, whose truth
\* value raises ValueError.
RECURSIVE ImputeFrom(_, _, _, _, _)
ImputeFrom(df, df_imputed, j, strategy, default_strategy) ==
  IF j > NCols(df) THEN [df |-> df_imputed, exc |-> ""]
  ELSE IF Duplicated(df, df.columns[j]) THEN [df |-> df_imputed, exc |-> "ValueError"]
  ELSE IF \E i \in 1..NRows(df) : IsNull(df.rows[i][j])
    THEN With(ImputeColumn(ColumnValues(df, j), df.dtypes[j],
                           Get(strategy, df.columns[j], default_strategy)),
              LAMBDA r :
                IF r.exc # "" THEN [df |-> df_imputed, exc |-> r.exc]
                ELSE With(SetColumn(df_imputed, j, r.col, df.dtypes[j]),
                          LAMBDA filled :
                            ImputeFrom(df, filled, j + 1, strategy, default_strategy)))
  ELSE ImputeFrom(df, df_imputed, j + 1, strategy, default_strategy)

impute_missing_values(df, strategy, default_strategy) ==
  ImputeFrom(df, df, 1, strategy, default_strategy)

(***************************************************************************)
(* DataEncoder.one_hot_encode                                              *)
(***************************************************************************)
\* pd.get_dummies(df[column], prefix=column, drop_first=drop_first): one
\* indicator column per level, named column_level, the first level left
\* out with drop_first; a duplicated name gives the indicators of each of
\* its columns.
RECURSIVE DummiesOf(_, _, _, _)
DummiesOf(df, column, positions, drop_first) ==
  IF positions = <<>> THEN Frame(<<>>, <<>>, [i \in 1..NRows(df) |-> <<>>])
  ELSE LET col == ColumnValues(df, Head(positions))
           all == Levels(col)
           levels == IF drop_first /\ all # <<>> THEN Tail(all) ELSE all
           dummies ==
             Frame([k \in 1..Len(levels) |-> column \o "_" \o levels[k]],
                   [k \in 1..Len(levels) |-> "bool"],
                   [i \in 1..NRows(df) |->
                      [k \in 1..Len(levels) |->
                         IF col[i] = levels[k] THEN "True" ELSE "False"]])
       IN With(dummies,
               LAMBDA first :
                 With(DummiesOf(df, column, Tail(positions), drop_first),
                      LAMBDA others : ConcatColumns(first, others)))

\* The loop over the columns to encode. The second occurrence of a
\* duplicated name finds the column already dropped: KeyError.
RECURSIVE EncodeFrom(_, _, _, _)
EncodeFrom(df, df_encoded, columns, drop_first) ==
  IF columns = <<>> THEN [df |-> df_encoded, exc |-> ""]
  ELSE LET column == Head(columns)
       IN IF ~InColumns(df, column)
            THEN EncodeFrom(df, df_encoded, Tail(columns), drop_first)
          ELSE IF ~InColumns(df_encoded, column)
            THEN [df |-> df_encoded, exc |-> "KeyError"]
          ELSE LET positions ==
                     SelectSeq([j \in 1..NCols(df) |-> j],
                               LAMBDA j : df.columns[j] = column)
               IN With(DummiesOf(df, column, positions, drop_first),
                       LAMBDA dummies :
                         With(ConcatColumns(df_encoded, dummies),
                              LAMBDA wider :
                                With(DropColumn(wider, column),
                                     LAMBDA encoded :
                                       EncodeFrom(df, encoded, Tail(columns),
                                                  drop_first))))

\* df.select_dtypes(include=['object', 'category']).columns.tolist()
ObjectColumns(df) ==
  LET pos == SelectSeq([j \in 1..NCols(df) |-> j],
                       LAMBDA j : df.dtypes[j] \in {"object", "category"})
  IN [k \in 1..Len(pos) |-> df.columns[pos[k]]]

one_hot_encode(df, columns, drop_first) ==
  EncodeFrom(df, df, IF columns = None THEN ObjectColumns(df) ELSE columns.names,
             drop_first)

(***************************************************************************)
(* DataValidator.validate_data_types                                       *)
(***************************************************************************)
\* expected_types maps column names to dtypes. The frame is only read. For
\* a duplicated name df[column] has no attribute dtype: AttributeError.
validate_data_types(df, expected_types) ==
  IF \E c \in DOMAIN expected_types : Duplicated(df, c)
    THEN [valid |-> FALSE, exc |-> "AttributeError"]
    ELSE [valid |-> \A c \in DOMAIN expected_types :
                      /\ InColumns(df, c)
                      /\ df.dtypes[CHOOSE j \in Positions(df, c) : TRUE]
                           = expected_types[c],
          exc |-> ""]

(***************************************************************************)
(* FeatureEngineer.create_date_features                                    *)
(***************************************************************************)
DateFeatureSuffixes ==
  <<"_year", "_month", "_day", "_dayofweek", "_quarter", "_is_weekend">>

\* Without the column the copy is returned. pd.to_datetime parses '' to NaT
\* and raises ValueError on the other texts and on a duplicated name; the
\* features of NaT are NaN, is_weekend is 0.
create_date_features(df, date_column) ==
  IF ~InColumns(df, date_column) THEN [df |-> df, exc |-> ""]
  ELSE IF Duplicated(df, date_column) THEN [df |-> df, exc |-> "ValueError"]
  ELSE LET j == CHOOSE p \in Positions(df, date_column) : TRUE
       IN IF \E i \in 1..NRows(df) : df.rows[i][j] # "" /\ ~IsNull(df.rows[i][j])
            THEN [df |-> df, exc |-> "ValueError"]
            ELSE [df |->
                    ConcatColumns(
                      SetColumn(df, j, [i \in 1..NRows(df) |-> NaN], "datetime64"),
                      Frame([k \in 1..Len(DateFeatureSuffixes) |-> date_column \o DateFeatureSuffixes[k]],
                            [k \in 1..Len(DateFeatureSuffixes) |-> IF k = Len(DateFeatureSuffixes) THEN "int64" ELSE "float64"],
                            [i \in 1..NRows(df) |->
                               [k \in 1..Len(DateFeatureSuffixes) |-> IF k = Len(DateFeatureSuffixes) THEN "0" ELSE NaN]])),
                  exc |-> ""]

(***************************************************************************)
(* ETLPipeline.transform                                                   *)
(***************************************************************************)
\* Mutant of ApplyStep: a name that is not recognized raises ValueError.
ApplyStepUnknownFatal(df, transformation) ==
  LET func_name == transformation.function
      params == transformation.params
      TypeError(op) == [op |-> op, df |-> df, exc |-> "TypeError"]
  IN IF func_name = "handle_missing_values"
       THEN IF ~Binds(params, {}, {"strategy", "default_strategy"})
              THEN TypeError("impute_missing_values")
              ELSE With(impute_missing_values(
                          df, Get(params, "strategy", EmptyDict),
                          Get(params, "default_strategy", "mean")),
                        LAMBDA r :
                          [op |-> "impute_missing_values", df |-> r.df, exc |-> r.exc])
     ELSE IF func_name = "encode_categorical"
       THEN IF ~Binds(params, {}, {"columns", "drop_first"})
              THEN TypeError("one_hot_encode")
              ELSE With(one_hot_encode(df, Get(params, "columns", None),
                                       Get(params, "drop_first", FALSE)),
                        LAMBDA r :
                          [op |-> "one_hot_encode", df |-> r.df, exc |-> r.exc])
     ELSE IF func_name = "validate_data"
       THEN IF ~Binds(params, {"expected_types"}, {"expected_types"})
              THEN TypeError("validate_data_types")
              ELSE [op |-> "validate_data_types", df |-> df,
                    exc |-> validate_data_types(df, params.expected_types).exc]
     ELSE IF func_name = "create_features"
       THEN IF ~Binds(params, {"date_column"}, {"date_column"})
              THEN TypeError("create_date_features")
              ELSE With(create_date_features(df, params.date_column),
                        LAMBDA r :
                          [op |-> "create_date_features", df |-> r.df, exc |-> r.exc])
     ELSE [op |-> "", df |-> df, exc |-> "ValueError"]

\* One iteration of the loop over the transformations: the operation the
\* step names is looked up and called with **params. op is the operation
\* called ("" for a name that is not recognized), df the working table
\* after the step, exc the class of the exception raised ("" for none).
ApplyStep(df, transformation) ==
  LET func_name == transformation.function
      params == transformation.params
      TypeError(op) == [op |-> op, df |-> df, exc |-> "TypeError"]
  IN IF func_name = "handle_missing_values"
       THEN IF ~Binds(params, {}, {"strategy", "default_strategy"})
              THEN TypeError("impute_missing_values")
              ELSE With(impute_missing_values(
                          df, Get(params, "strategy", EmptyDict),
                          Get(params, "default_strategy", "mean")),
                        LAMBDA r :
                          [op |-> "impute_missing_values", df |-> r.df, exc |-> r.exc])
     ELSE IF func_name = "encode_categorical"
       THEN IF ~Binds(params, {}, {"columns", "drop_first"})
              THEN TypeError("one_hot_encode")
              ELSE With(one_hot_encode(df, Get(params, "columns", None),
                                       Get(params, "drop_first", FALSE)),
                        LAMBDA r :
                          [op |-> "one_hot_encode", df |-> r.df, exc |-> r.exc])
     ELSE IF func_name = "validate_data"
       THEN IF ~Binds(params, {"expected_types"}, {"expected_types"})
              THEN TypeError("validate_data_types")
              ELSE [op |-> "validate_data_types", df |-> df,
                    exc |-> validate_data_types(df, params.expected_types).exc]
     ELSE IF func_name = "create_features"
       THEN IF ~Binds(params, {"date_column"}, {"date_column"})
              THEN TypeError("create_date_features")
              ELSE With(create_date_features(df, params.date_column),
                        LAMBDA r :
                          [op |-> "create_date_features", df |-> r.df, exc |-> r.exc])
     ELSE [op |-> "", df |-> df, exc |-> ""]

\* Mutant of ApplySteps: the steps are taken from the end of the list.
RECURSIVE ApplyStepsBackwards(_, _, _)
ApplyStepsBackwards(df, transformations, applied) ==
  IF transformations = <<>> THEN [df |-> df, exc |-> "", applied |-> applied]
  ELSE With(ApplyStep(df, transformations[Len(transformations)]),
            LAMBDA r :
              With(IF r.op = "" THEN applied ELSE Append(applied, r.op),
                   LAMBDA called :
                     IF r.exc # ""
                       THEN [df |-> df, exc |-> r.exc, applied |-> called]
                       ELSE ApplyStepsBackwards(
                              r.df,
                              SubSeq(transformations, 1, Len(transformations) - 1),
                              called)))

\* The loop: the steps in list order, each on the table the step before it
\* left; the first exception ends it, with the table as that step found
\* it. applied lists the operations called.
RECURSIVE ApplySteps(_, _, _)
ApplySteps(df, transformations, applied) ==
  IF transformations = <<>> THEN [df |-> df, exc |-> "", applied |-> applied]
  ELSE With(ApplyStep(df, Head(transformations)),
            LAMBDA r :
              With(IF r.op = "" THEN applied ELSE Append(applied, r.op),
                   LAMBDA called :
                     IF r.exc # ""
                       THEN [df |-> df, exc |-> r.exc, applied |-> called]
                       ELSE ApplySteps(r.df, Tail(transformations), called)))

\* df.copy(): another frame with the same columns, dtypes and cells.
Copy(df) == df

\* Mutant of transform: the check of raw_data is missing, and
\* None.copy() raises AttributeError.
transformNoGuard(raw, transformed, transformations) ==
  IF raw = None
    THEN [raw_data |-> raw, transformed_data |-> transformed,
          out |-> Raise("AttributeError"), applied |-> <<>>]
    ELSE With(ApplySteps(Copy(raw), transformations, <<>>),
              LAMBDA r :
                [raw_data |-> raw, transformed_data |-> r.df,
                 out |-> IF r.exc = "" THEN Return(r.df) ELSE Raise(r.exc),
                 applied |-> r.applied])

\* Mutant of transform: the steps work on the extracted table itself, and
\* raw_data holds what they made of it.
transformOnRaw(raw, transformed, transformations) ==
  IF raw = None
    THEN [raw_data |-> raw, transformed_data |-> transformed,
          out |-> Raise("ValueError"), applied |-> <<>>]
    ELSE With(ApplySteps(raw, transformations, <<>>),
              LAMBDA r :
                [raw_data |-> r.df, transformed_data |-> r.df,
                 out |-> IF r.exc = "" THEN Return(r.df) ELSE Raise(r.exc),
                 applied |-> r.applied])

\* transform(transformations) on a pipeline whose fields are raw and
\* transformed: the new raw_data and transformed_data, the outcome of the
\* call and the operations called. The steps work on a copy of raw_data, and
\* each operation on a copy of its argument; self.raw_data is not assigned.
\* self.transformed_data is assigned before the loop and after each step,
\* so a step that raises leaves the table of the steps before it.
transform(raw, transformed, transformations) ==
  IF raw = None
    THEN [raw_data |-> raw, transformed_data |-> transformed,
          out |-> Raise("ValueError"), applied |-> <<>>]
    ELSE With(ApplySteps(Copy(raw), transformations, <<>>),
              LAMBDA r :
                [raw_data |-> raw, transformed_data |-> r.df,
                 out |-> IF r.exc = "" THEN Return(r.df) ELSE Raise(r.exc),
                 applied |-> r.applied])

(***************************************************************************)
(* ETLPipeline.extract                                                     *)
(***************************************************************************)
\* Mutant of extract: the source is looked at after the page was scraped
\* and stored.
extractScrapesFirst(raw, source, fetch, page) ==
  With(scrape_cacao_ratings(fetch, page),
       LAMBDA df :
         IF source = "web_scraping"
           THEN [raw_data |-> df, out |-> Return(df), fetched |-> <<fetch>>]
           ELSE [raw_data |-> df, out |-> Raise("ValueError"),
                 fetched |-> <<fetch>>])

\* extract(source): the new raw_data, the outcome and the outcomes of the
\* requests made. fetch and page are what the request and the site give
\* when the page is scraped.
extract(raw, source, fetch, page) ==
  IF source = "web_scraping"
    THEN With(scrape_cacao_ratings(fetch, page),
              LAMBDA df : [raw_data |-> df, out |-> Return(df),
                           fetched |-> <<fetch>>])
    ELSE [raw_data |-> raw, out |-> Raise("ValueError"), fetched |-> <<>>]

(***************************************************************************)
(* PostgreSQLLoader and ETLPipeline.load                                   *)
(***************************************************************************)
\* One operation on the persistence collaborator, with its outcome.
PersistOp(op, df, table_name, if_exists, out) ==
  [op |-> op, df |-> df, table_name |-> table_name, if_exists |-> if_exists,
   out |-> out]

\* PostgreSQLLoader(): _connect() re-raises the SQLAlchemyError of a
\* failed connection.
ConnectOutcomes == {"ok", "SQLAlchemyError"}

\* df.to_sql(...): written, a database error, or another exception (the
\* ValueError of if_exists='fail' on an existing table).
ToSqlOutcomes == {"ok", "SQLAlchemyError", "ValueError"}

\* Mutant of load_dataframe: the test of df.empty is missing.
load_dataframeWritesEmpty(df, table_name, if_exists, to_sql) ==
  LET out == IF to_sql = "ok" THEN Return(PyBool(TRUE))
             ELSE IF to_sql = "SQLAlchemyError" THEN Return(PyBool(FALSE))
             ELSE Raise(to_sql)
  IN [out |-> out,
      persist |-> << PersistOp("load_dataframe", df, table_name, if_exists, out),
                     PersistOp("to_sql", df, table_name, if_exists,
                               IF to_sql = "ok" THEN Return(None) ELSE Raise(to_sql)) >>]

\* load_dataframe(df, table_name, if_exists): the outcome and the
\* operations on the database.
load_dataframe(df, table_name, if_exists, to_sql) ==
  LET call(out) == PersistOp("load_dataframe", df, table_name, if_exists, out)
      write == PersistOp("to_sql", df, table_name, if_exists,
                         IF to_sql = "ok" THEN Return(None) ELSE Raise(to_sql))
      out == IF empty(df) THEN Return(PyBool(FALSE))
             ELSE IF to_sql = "ok" THEN Return(PyBool(TRUE))
             ELSE IF to_sql = "SQLAlchemyError" THEN Return(PyBool(FALSE))
             ELSE Raise(to_sql)
  IN [out |-> out,
      persist |-> IF empty(df) THEN <<call(out)>> ELSE <<call(out), write>>]

\* The connected loader object.
PostgreSQLLoader == [tag |-> "PostgreSQLLoader"]

\* Mutant of load: the loader is constructed before the destination is
\* looked at.
loadConnectsFirst(raw, transformed, loader_, destination, kwargs, connect, to_sql) ==
  IF transformed = None
    THEN [loader |-> loader_, out |-> Raise("ValueError"), persist |-> <<>>]
  ELSE LET table_name == Get(kwargs, "table_name", "cacao_ratings")
           if_exists == Get(kwargs, "if_exists", "replace")
           construct == PersistOp("PostgreSQLLoader", None, "", "",
                                  IF connect = "ok" THEN Return(PostgreSQLLoader)
                                  ELSE Raise(connect))
       IN IF connect # "ok"
            THEN [loader |-> loader_, out |-> Raise(connect),
                  persist |-> <<construct>>]
          ELSE IF destination = "postgres"
            THEN With(load_dataframe(transformed, table_name, if_exists, to_sql),
                      LAMBDA r :
                        [loader |-> PostgreSQLLoader, out |-> r.out,
                         persist |-> <<construct>> \o r.persist])
          ELSE [loader |-> PostgreSQLLoader, out |-> Raise("ValueError"),
                persist |-> <<construct>>]

\* load(destination, **kwargs) on a pipeline whose fields are raw,
\* transformed and loader_: the new loader, the outcome of the call and the
\* operations on the persistence collaborator.
load(raw, transformed, loader_, destination, kwargs, connect, to_sql) ==
  IF transformed = None
    THEN [loader |-> loader_, out |-> Raise("ValueError"), persist |-> <<>>]
  ELSE IF destination = "postgres"
    THEN LET table_name == Get(kwargs, "table_name", "cacao_ratings")
             if_exists == Get(kwargs, "if_exists", "replace")
             construct == PersistOp("PostgreSQLLoader", None, "", "",
                                    IF connect = "ok" THEN Return(PostgreSQLLoader)
                                    ELSE Raise(connect))
         IN IF connect # "ok"
              THEN [loader |-> loader_, out |-> Raise(connect),
                    persist |-> <<construct>>]
              ELSE With(load_dataframe(transformed, table_name, if_exists, to_sql),
                        LAMBDA r :
                          [loader |-> PostgreSQLLoader, out |-> r.out,
                           persist |-> <<construct>> \o r.persist])
  ELSE [loader |-> loader_, out |-> Raise("ValueError"), persist |-> <<>>]


(***************************************************************************)
(* Inputs of the pipeline.                                                 *)
(***************************************************************************)
MaxSteps == 2

\* The documents the site may serve: no table; a header row with distinct
\* names; a header row with a repeated name; a first row with an empty
\* cell; a single row; a small table followed by a larger one with
\* numerals and empty cells.
Pages ==
  { <<>>,
    << << <<"a">>, <<"a", "">>, <<"">> >> >>,
    << << <<"a", "a">>, <<"a">> >> >>,
    << << <<"", "a">>, <<"a", "a">> >>, << <<"a">>, <<"">> >> >>,
    << << <<"a", "a">> >> >>,
    << << <<"H1", "H2">>, <<"1", "2">> >>,
       << <<"A", "B", "C">>, <<"", "2", "3">>, <<"4", "", "6">> >> >> }

Sources == {"web_scraping", "csv"}
Destinations == {"postgres", "csv"}
LoadKwargs ==
  {EmptyDict, [table_name |-> "cacao_ratings_processed", if_exists |-> "append"]}

Step(function, params) == [function |-> function, params |-> params]

\* The steps callers put in their lists.
StepPool ==
  { Step("handle_missing_values", [strategy |-> EmptyDict, default_strategy |-> "mean"]),
    Step("handle_missing_values", [strategy |-> [a |-> "ffill"], default_strategy |-> "mode"]),
    Step("encode_categorical", [columns |-> None, drop_first |-> TRUE]),
    Step("encode_categorical", [columns |-> [names |-> <<"A">>], drop_first |-> TRUE]),
    Step("validate_data", EmptyDict),
    Step("validate_data", [expected_types |-> [a |-> "object"]]),
    Step("create_features", [date_column |-> "date"]),
    Step("scale_features", EmptyDict) }

StepLists == UNION {[1..n -> StepPool] : n \in 0..MaxSteps}

\* A list passed for the parameter transformations of run_pipeline, whose
\* default is None.
PyList(items) == [tag |-> "list", items |-> items]

\* The list run_pipeline builds when transformations is None.
DefaultTransformations ==
  << Step("handle_missing_values", [strategy |-> EmptyDict, default_strategy |-> "mean"]),
     Step("encode_categorical", [columns |-> None, drop_first |-> TRUE]),
     Step("validate_data", EmptyDict) >>

(***************************************************************************)
(* State.                                                                  *)
(***************************************************************************)
VARIABLES
  soup,             \* the parsed document handed to manual_table_scraping
  scraped,          \* what manual_table_scraping(soup) returned, once called
  scrape_df,        \* what scrape_cacao_ratings() returned for this page, once called
  scrape_err,       \* what a manual_table_scraping call returned in which processing raised
  raw_data,         \* ETLPipeline.raw_data
  transformed_data, \* ETLPipeline.transformed_data
  loader,           \* ETLPipeline.loader
  pc,               \* position of run_pipeline: the stage it calls next, or "idle"
  run_default,      \* "transformations is None" in the run_pipeline call in progress or last made
  run_ret,          \* outcome of the last run_pipeline call, once it ended
  stages,           \* the stage calls run_pipeline has made, with their outcomes
  last,             \* the most recent call of extract, transform or load
  has_extracted,    \* some extract() call has returned
  has_transformed,  \* some transform() call has returned
  up_to_date,       \* the most recent transform() call returned, and no extract() has returned since
  impute_call,      \* the arguments of the impute_missing_values call under study
  impute_out        \* the outcome of that call, once made

vars == <<soup, scraped, scrape_df, scrape_err, raw_data, transformed_data, loader, pc,
          run_default, run_ret, stages, last, has_extracted, has_transformed,
          up_to_date, impute_call, impute_out>>

impute_vars == <<impute_call, impute_out>>
scrape_vars == <<soup, scraped, scrape_df, scrape_err>>
pipeline_vars == <<raw_data, transformed_data, loader, pc, run_default, run_ret,
                   stages, last, has_extracted, has_transformed, up_to_date>>

\* No call has been made yet.
Unset == [tag |-> "Unset"]

\* ETLPipeline.__init__
InitPipeline ==
  /\ raw_data = None
  /\ transformed_data = None
  /\ loader = None
  /\ pc = "idle"
  /\ run_default = FALSE
  /\ run_ret = Unset
  /\ stages = <<>>
  /\ last = Unset
  /\ has_extracted = FALSE
  /\ has_transformed = FALSE
  /\ up_to_date = FALSE

(***************************************************************************)
(* The scraping routines applied to a document.                            *)
(***************************************************************************)
InitScrape ==
  /\ \E n \in 0..MaxTables : soup \in [1..n -> TableElems]
  /\ scraped = Unset
  /\ scrape_df = Unset
  /\ scrape_err = Unset
  /\ impute_call = Unset
  /\ impute_out = Unset
  /\ InitPipeline

ManualTableScraping ==
  /\ scraped = Unset
  /\ scraped' = manual_table_scraping(soup)
  /\ UNCHANGED <<soup, scrape_df, scrape_err>>
  /\ UNCHANGED pipeline_vars
  /\ UNCHANGED impute_vars

\* A manual_table_scraping call in which processing the document raises.
ManualTableScrapingRaises ==
  /\ scrape_err = Unset
  /\ \E exc \in ProcessingFailures : scrape_err' = ScrapingExcept(exc)
  /\ UNCHANGED <<soup, scraped, scrape_df>>
  /\ UNCHANGED pipeline_vars
  /\ UNCHANGED impute_vars

ScrapeCacaoRatings ==
  /\ scrape_df = Unset
  /\ \E fetch \in FetchOutcomes : scrape_df' = scrape_cacao_ratings(fetch, soup)
  /\ UNCHANGED <<soup, scraped, scrape_err>>
  /\ UNCHANGED pipeline_vars
  /\ UNCHANGED impute_vars

NextScrape ==
  \/ ManualTableScraping
  \/ ManualTableScrapingRaises
  \/ ScrapeCacaoRatings

SpecScrape == InitScrape /\ [][NextScrape]_vars

(***************************************************************************)
(* The pipeline object and its callers.                                    *)
(***************************************************************************)
\* A stage call: the method, its arguments, its outcome, the transformation
\* operations it called, the operations it made on the persistence
\* collaborator and the outcomes of the requests it made.
StageCall(op, args, out, applied, persist, fetched) ==
  [op |-> op, args |-> args, out |-> out, applied |-> applied,
   persist |-> persist, fetched |-> fetched]

\* The effects of self.extract(source) on the pipeline.
DoExtract(source) ==
  \E fetch \in FetchOutcomes, page \in Pages :
    \E r \in {extract(raw_data, source, fetch, page)} :
       /\ raw_data' = r.raw_data
       /\ last' = StageCall("extract", [source |-> source], r.out, <<>>, <<>>,
                             r.fetched)
       /\ has_extracted' = (has_extracted \/ r.out.kind = "return")
       /\ up_to_date' = (up_to_date /\ r.out.kind = "raise")
       /\ UNCHANGED <<transformed_data, loader, has_transformed>>

\* The effects of self.transform(transformations).
DoTransform(transformations) ==
  \E r \in {transform(raw_data, transformed_data, transformations)} :
     /\ raw_data' = r.raw_data
     /\ transformed_data' = r.transformed_data
     /\ last' = StageCall("transform", [transformations |-> transformations],
                           r.out, r.applied, <<>>, <<>>)
     /\ has_transformed' = (has_transformed \/ r.out.kind = "return")
     /\ up_to_date' = (r.out.kind = "return")
     /\ UNCHANGED <<loader, has_extracted>>

\* The effects of self.load(destination, **kwargs).
DoLoad(destination, kwargs) ==
  \E connect \in ConnectOutcomes, to_sql \in ToSqlOutcomes :
    \E r \in {load(raw_data, transformed_data, loader, destination, kwargs,
                  connect, to_sql)} :
       /\ loader' = r.loader
       /\ last' = StageCall("load", [destination |-> destination, kwargs |-> kwargs],
                             r.out, <<>>, r.persist, <<>>)
       /\ UNCHANGED <<raw_data, transformed_data, has_extracted, has_transformed,
                      up_to_date>>

\* A caller uses the single-call forms; what is known of an earlier run is
\* dropped.
DirectCall ==
  /\ pc = "idle"
  /\ pc' = pc
  /\ run_default' = FALSE
  /\ run_ret' = Unset
  /\ stages' = <<>>
  /\ UNCHANGED scrape_vars
  /\ UNCHANGED impute_vars

Extract == DirectCall /\ \E source \in Sources : DoExtract(source)

Transform == DirectCall /\ \E transformations \in StepLists : DoTransform(transformations)

Load == DirectCall /\ \E destination \in Destinations, kwargs \in LoadKwargs :
                        DoLoad(destination, kwargs)

\* Mutant of RunExcept: the exception is raised again.
RunExceptReraise(exc) == Raise(exc)

\* run_pipeline's "except Exception": the error is logged, False returned.
RunExcept(exc) == Return(PyBool(FALSE))

\* Mutant of AfterStage: every stage is called, whatever the one before did.
AfterStageNoAbort(stage, out) ==
  IF stage = "extract" THEN "run_transform"
  ELSE IF stage = "transform" THEN "run_load"
  ELSE "idle"

\* The position of run_pipeline after a stage call: the next stage, or the
\* end of the method when the call raised or was the last.
AfterStage(stage, out) ==
  IF out.kind = "raise" THEN "idle"
  ELSE IF stage = "extract" THEN "run_transform"
  ELSE IF stage = "transform" THEN "run_load"
  ELSE "idle"

\* run_pipeline(source, transformations, destination, load_kwargs=...) is
\* called. Each argument is an input of the call; the model draws it where
\* the method first reads it.
RunPipeline ==
  /\ pc = "idle"
  /\ pc' = "run_extract"
  /\ run_default' = FALSE
  /\ run_ret' = Unset
  /\ stages' = <<>>
  /\ UNCHANGED <<raw_data, transformed_data, loader, last, has_extracted,
                 has_transformed, up_to_date>>
  /\ UNCHANGED scrape_vars
  /\ UNCHANGED impute_vars

\* The bookkeeping of run_pipeline after the stage call recorded in last'.
RunAfter(stage) ==
  /\ stages' = Append(stages, last')
  /\ pc' = AfterStage(stage, last'.out)
  /\ run_ret' = IF last'.out.kind = "raise" THEN RunExcept(last'.out.exc)
                ELSE IF stage = "load" THEN Return(last'.out.value)
                ELSE run_ret
  /\ UNCHANGED scrape_vars
  /\ UNCHANGED impute_vars

\* self.extract(source, **(source_kwargs or {}))
RunExtract ==
  /\ pc = "run_extract"
  /\ \E source \in Sources : DoExtract(source)
  /\ RunAfter("extract")
  /\ UNCHANGED run_default

\* "if transformations is None: transformations = [...]", then
\* self.transform(transformations)
RunTransform ==
  /\ pc = "run_transform"
  /\ \E transformations \in {None} \cup {PyList(l) : l \in StepLists} :
       /\ run_default' = (transformations = None)
       /\ DoTransform(IF transformations = None
                        THEN DefaultTransformations
                        ELSE transformations.items)
  /\ RunAfter("transform")

\* success = self.load(destination, **(load_kwargs or {}))
RunLoad ==
  /\ pc = "run_load"
  /\ \E destination \in Destinations, kwargs \in LoadKwargs :
       DoLoad(destination, kwargs)
  /\ RunAfter("load")
  /\ UNCHANGED run_default

Init ==
  /\ soup = <<>>
  /\ scraped = Unset
  /\ scrape_df = Unset
  /\ scrape_err = Unset
  /\ impute_call = Unset
  /\ impute_out = Unset
  /\ InitPipeline

Next ==
  \/ Extract
  \/ Transform
  \/ Load
  \/ RunPipeline
  \/ RunExtract
  \/ RunTransform
  \/ RunLoad

Spec == Init /\ [][Next]_vars

(***************************************************************************)
(* impute_missing_values applied to a table.                               *)
(***************************************************************************)
MaxImputeRows == 3
MaxImputeColumns == 2

ImputeColumnNames == <<"a", "b">>
ImputeDtypes == {"object", "float64"}

\* What a cell of a column of the dtype may hold.
CellsOf(dtype) ==
  IF dtype = "float64" THEN {NaN, "1", "3"} ELSE {NaN, "", "a"}

\* The tables handed to impute_missing_values.
ImputeFrames ==
  UNION { UNION { { Frame(SubSeq(ImputeColumnNames, 1, n), dtypes, rows) :
                      rows \in [1..m -> {row \in [1..n -> UNION {CellsOf(d) : d \in ImputeDtypes}] :
                                           \A j \in 1..n : row[j] \in CellsOf(dtypes[j])}] } :
                  dtypes \in [1..n -> ImputeDtypes] } :
          n \in 1..MaxImputeColumns, m \in 1..MaxImputeRows }

\* The per-column strategies: none, or one for column a.
ImputeStrategies ==
  {EmptyDict} \cup
  {[a |-> s] : s \in {"mean", "median", "mode", "ffill", "bfill"} \cup NumberStrategies}

DefaultStrategies == {"mean", "median", "mode", "ffill", "bfill"}

ImputeCall(df, strategy, default_strategy) ==
  [df |-> df, strategy |-> strategy, default_strategy |-> default_strategy]

InitImpute ==
  /\ soup = <<>>
  /\ scraped = Unset
  /\ scrape_df = Unset
  /\ scrape_err = Unset
  /\ InitPipeline
  /\ \E df \in ImputeFrames, strategy \in ImputeStrategies,
        default_strategy \in DefaultStrategies :
       impute_call = ImputeCall(df, strategy, default_strategy)
  /\ impute_out = Unset

\* MissingValuesHandler.impute_missing_values(df, strategy, default_strategy)
ImputeMissingValues ==
  /\ impute_out = Unset
  /\ \E r \in {impute_missing_values(impute_call.df, impute_call.strategy,
                                       impute_call.default_strategy)} :
       impute_out' = IF r.exc = "" THEN Return(r.df) ELSE Raise(r.exc)
  /\ UNCHANGED impute_call
  /\ UNCHANGED scrape_vars
  /\ UNCHANGED pipeline_vars

NextImpute == ImputeMissingValues

SpecImpute == InitImpute /\ [][NextImpute]_vars

(***************************************************************************)
(* Claims about manual_table_scraping, checked under SpecScrape.           *)
(***************************************************************************)
\* The rows of table element t of the document that yield at least one cell.
Grid(t) == SelectSeq(soup[t], LAMBDA r : Len(r) > 0)

\* Row 0 of the grid holds non-empty cells only.
HeaderRowUsable(t) == \A j \in 1..Len(Grid(t)[1]) : Grid(t)[1][j] # ""

\* Cell j of a raw row brought to width k: the raw cell, or '' past its end.
CellAt(raw, j) == IF j <= Len(raw) THEN raw[j] ELSE ""

\* df holds, under header names cols, the raw rows grid[off+1..] cell by cell.
HoldsRows(df, cols, grid, off) ==
  /\ IsDataFrame(df)
  /\ df.columns = cols
  /\ Len(df.rows) = Len(grid) - off
  /\ \A i \in 1..Len(df.rows) :
       /\ Len(df.rows[i]) = Len(cols)
       /\ \A j \in 1..Len(cols) : df.rows[i][j] = CellAt(grid[i + off], j)

\* C1: for a document with zero table elements manual_table_scraping returns
\* the empty table (0 rows, 0 columns), not None.
C1_NoTableGivesEmptyTable ==
  (scraped # Unset /\ soup = <<>>) => scraped = EmptyDataFrame

\* C2: for a document with exactly one table element that has at least 2
\* non-empty rows and a first row of non-empty cells only, the result has
\* row 0 as its header and rows 1..N, in order, each brought to the header
\* width, as its data rows.
C2_SingleTableHeaderAndRows ==
  (scraped # Unset /\ Len(soup) = 1 /\ Len(Grid(1)) >= 2 /\ HeaderRowUsable(1))
    => HoldsRows(scraped, Grid(1)[1], Grid(1), 1)

\* C2 witness: rows [[a,a],[a],["",a]] give header [a,a] and data rows
\* [[a,""],["",a]].
C2_Witness ==
  /\ soup = << << <<"a", "a">>, <<"a">>, <<"", "a">> >> >>
  /\ scraped = DataFrame(<< <<"a", "">>, <<"", "a">> >>, <<"a", "a">>)

\* Area of a grid as the claim counts it: non-empty rows, header row
\* included, times the number of columns.
GridArea(t) == Len(Grid(t)) * Len(Grid(t)[1])

\* Number of data rows of the candidate of table t: the header row is not
\* one of them when row 0 is used as the header.
DataRowCount(t) == IF HeaderRowUsable(t) THEN Len(Grid(t)) - 1 ELSE Len(Grid(t))

\* Area of the candidate of table t: data rows times columns.
CandidateArea(t) == DataRowCount(t) * Len(Grid(t)[1])

\* The candidate table that table element t yields.
IsCandidateOf(df, t) ==
  HoldsRows(df,
            IF HeaderRowUsable(t) THEN Grid(t)[1]
            ELSE [j \in 1..Len(Grid(t)[1]) |-> "Colonne_" \o ToString(j)],
            Grid(t),
            IF HeaderRowUsable(t) THEN 1 ELSE 0)

TwoGrids == Len(soup) = 2 /\ Len(Grid(1)) >= 2 /\ Len(Grid(2)) >= 2

\* C3 as stated: of two tables whose grids differ in (non-empty rows, header
\* included) x columns, the one of the larger grid is returned.
C3_LargerGridAreaWins ==
  (scraped # Unset /\ TwoGrids /\ GridArea(1) # GridArea(2))
    => IsCandidateOf(scraped, IF GridArea(1) > GridArea(2) THEN 1 ELSE 2)

\* C3 amended: of two tables whose candidates differ in (data rows) x
\* columns, the candidate with the larger product is returned, whichever
\* of the two comes first.
C3_LargerCandidateAreaWins ==
  (scraped # Unset /\ TwoGrids /\ CandidateArea(1) # CandidateArea(2))
    => IsCandidateOf(scraped, IF CandidateArea(1) > CandidateArea(2) THEN 1 ELSE 2)

\* C3 witness: the larger candidate (2 data rows x 2 columns, positional
\* header) comes second and is returned; the first has 2 data rows x 1 column.
C3_Witness ==
  /\ soup = << << <<"a">>, <<"a">>, <<"a">> >>, << <<"", "a">>, <<"a", "a">> >> >>
  /\ scraped = DataFrame(<< <<"", "a">>, <<"a", "a">> >>, <<"Colonne_1", "Colonne_2">>)

\* C4: every data row of a returned table has as many cells as the header;
\* it is the raw row padded at its end with '' or cut to its first cells.
C4_RowsNormalized ==
  (scraped # Unset /\ IsDataFrame(scraped)) =>
    /\ \A i \in 1..Len(scraped.rows) : Len(scraped.rows[i]) = Len(scraped.columns)
    /\ \E t \in 1..Len(soup) : \E off \in {0, 1} :
         /\ Len(Grid(t)) >= 2
         /\ Len(scraped.columns) = Len(Grid(t)[1])
         /\ HoldsRows(scraped, scraped.columns, Grid(t), off)

\* C4 witness: under a 1-column header the raw rows ["",a] and [a,""] are cut
\* to [""] and [a]. (C2's witness holds a padded row.)
C4_Witness ==
  /\ soup = << << <<"a">>, <<"", "a">>, <<"a", "">> >> >>
  /\ scraped = DataFrame(<< <<"">>, <<"a">> >>, <<"a">>)

\* C5: a table element with fewer than 2 rows that yield a cell is never
\* returned, and when it is the only table element the result is the empty
\* table.
C5_ShortTableExcluded ==
  scraped # Unset =>
    /\ IsDataFrame(scraped) =>
         \E t \in 1..Len(soup) : Len(Grid(t)) >= 2 /\ IsCandidateOf(scraped, t)
    /\ (Len(soup) = 1 /\ Len(Grid(1)) < 2) => scraped = EmptyDataFrame

\* Table element t yields a candidate: it has 2 rows with cells or more.
YieldsCandidate(t) == Len(Grid(t)) >= 2

\* C21: when the document yields candidates, the returned table is a
\* candidate whose (data rows) x (columns) no candidate exceeds, and every
\* candidate before it in the document has a smaller product.
C21_FirstMaximalCandidate ==
  (scraped # Unset /\ \E t \in 1..Len(soup) : YieldsCandidate(t)) =>
    \E t \in 1..Len(soup) :
      /\ YieldsCandidate(t)
      /\ IsCandidateOf(scraped, t)
      /\ \A u \in 1..Len(soup) :
           YieldsCandidate(u) =>
             /\ CandidateArea(u) <= CandidateArea(t)
             /\ u < t => CandidateArea(u) < CandidateArea(t)

\* C21 witness: two different candidates of product 2 (2 data rows x 1
\* column, then 1 data row x 2 columns); the first is returned.
C21_Witness ==
  /\ soup = << << <<"">>, <<"a">> >>, << <<"a", "a">>, <<"a">> >> >>
  /\ scraped = DataFrame(<< <<"">>, <<"a">> >>, <<"Colonne_1">>)

\* C22: a table element with fewer than 2 rows with cells does not end the
\* routine: the only table element that has 2 such rows or more yields the
\* result, wherever the discarded elements stand.
C22_DiscardedTableDoesNotEndExtraction ==
  scraped # Unset =>
    \A t \in 1..Len(soup) :
      (YieldsCandidate(t) /\ \A u \in 1..Len(soup) : u # t => ~YieldsCandidate(u))
        => IsCandidateOf(scraped, t)

\* C22 witness: a table of one row, then a table of a header and one row,
\* which is returned.
C22_Witness ==
  /\ soup = << << <<"a", "a">> >>, << <<"a">>, <<"", "a">> >> >>
  /\ scraped = DataFrame(<< <<"">> >>, <<"a">>)

\* The document has one table element, which yields a candidate.
SingleCandidate == scraped # Unset /\ Len(soup) = 1 /\ YieldsCandidate(1)

\* Row 0 of the grid of table t holds a non-empty cell.
SomeHeaderCell(t) == \E j \in 1..Len(Grid(t)[1]) : Grid(t)[1][j] # ""

\* Row 0 of the grid of table t holds empty cells only.
NoHeaderCell(t) == \A j \in 1..Len(Grid(t)[1]) : Grid(t)[1][j] = ""

\* The positional names prefix1 .. prefixk for the k cells of row 0.
PositionalNames(t, prefix) ==
  [j \in 1..Len(Grid(t)[1]) |-> prefix \o ToString(j)]

\* C23 as stated: a first row with at least one non-empty cell is used as
\* the header, the rows after it as the data rows.
C23_HeaderBranchForAnyNonEmptyCell ==
  (SingleCandidate /\ SomeHeaderCell(1))
    => HoldsRows(scraped, Grid(1)[1], Grid(1), 1)

\* C23 amended: the first row is used as the header, the rows after it as
\* the data rows, exactly when none of its cells is empty; a first row with
\* an empty cell, even next to non-empty ones, is kept as a data row under
\* positional names.
C23_HeaderBranchIffNoEmptyCell ==
  SingleCandidate =>
    /\ HeaderRowUsable(1) <=> HoldsRows(scraped, Grid(1)[1], Grid(1), 1)
    /\ ~HeaderRowUsable(1) =>
         /\ scraped.columns # Grid(1)[1]
         /\ HoldsRows(scraped, scraped.columns, Grid(1), 0)

\* C23 witness: the first row ["", a] has a non-empty cell and is kept as
\* the first data row.
C23_Witness ==
  /\ soup = << << <<"", "a">>, <<"a", "a">> >> >>
  /\ scraped = DataFrame(<< <<"", "a">>, <<"a", "a">> >>, <<"Colonne_1", "Colonne_2">>)

\* C24 as stated: a first row of empty cells gives the names Column_1 ..
\* Column_k and is kept as the first data row.
C24_ColumnNamesForEmptyRow ==
  (SingleCandidate /\ NoHeaderCell(1))
    => HoldsRows(scraped, PositionalNames(1, "Column_"), Grid(1), 0)

\* C24 amended: a first row of empty cells gives the names Colonne_1 ..
\* Colonne_k and is kept as the first data row, so the table has as many
\* data rows as the element has rows with cells.
C24_ColonneNamesForEmptyRow ==
  (SingleCandidate /\ NoHeaderCell(1))
    => /\ HoldsRows(scraped, PositionalNames(1, "Colonne_"), Grid(1), 0)
       /\ NRows(scraped) = Len(Grid(1))

\* C24 witness: rows [["", ""], [a]] give Colonne_1, Colonne_2 and the data
\* rows ["", ""], [a, ""].
C24_Witness ==
  /\ soup = << << <<"", "">>, <<"a">> >> >>
  /\ scraped = DataFrame(<< <<"", "">>, <<"a", "">> >>, <<"Colonne_1", "Colonne_2">>)

(***************************************************************************)
(* Claims about the pipeline, checked under Spec.                          *)
(***************************************************************************)
\* C6: transform() on a pipeline on which no extract() has returned a
\* table raises ValueError; no transformation operation is called and
\* raw_data and transformed_data stay what the constructor set.
C6_TransformBeforeExtract ==
  (last # Unset /\ last.op = "transform" /\ ~has_extracted) =>
    /\ last.out = Raise("ValueError")
    /\ last.applied = <<>>
    /\ raw_data = None
    /\ transformed_data = None

\* C6 witness: transform() was called after an extract() that raised.
C6_Witness ==
  /\ last # Unset
  /\ last.op = "transform"
  /\ ~has_extracted
  /\ last.out.exc = "ValueError"

\* C7: load() raises the state-precondition error and makes no operation
\* on the persistence collaborator whenever no transform() call has
\* returned on the pipeline.
C7_LoadNeedsCompletedTransform ==
  (last # Unset /\ last.op = "load" /\ ~has_transformed) =>
    /\ last.out = Raise("ValueError")
    /\ last.persist = <<>>

\* C8: run_pipeline ends by returning a boolean, never by raising, and it
\* returns False whenever one of its stage calls raised.
C8_RunReturnsBoolean ==
  /\ (pc = "idle" /\ stages # <<>>) => run_ret # Unset
  /\ run_ret # Unset =>
       /\ run_ret.kind = "return"
       /\ run_ret.value \in {PyBool(TRUE), PyBool(FALSE)}
       /\ (\E i \in 1..Len(stages) : stages[i].out.kind = "raise")
            => run_ret.value = PyBool(FALSE)

\* C8 witness: the connection of the loader failed and the run returned
\* False.
C8_Witness ==
  /\ run_ret = Return(PyBool(FALSE))
  /\ Len(stages) = 3
  /\ stages[3].out = Raise("SQLAlchemyError")

StageOrder == <<"extract", "transform", "load">>

\* C9: the stage calls of a run are extract, transform, load in this order,
\* each at most once, each made after the one before it has returned; no
\* stage is called after one that raised.
C9_StagesInOrder ==
  /\ Len(stages) <= Len(StageOrder)
  /\ \A i \in 1..Len(stages) :
       /\ stages[i].op = StageOrder[i]
       /\ i < Len(stages) => stages[i].out.kind = "return"
  /\ pc = "run_extract" => Len(stages) = 0
  /\ pc = "run_transform" => Len(stages) = 1 /\ stages[1].out.kind = "return"
  /\ pc = "run_load" => Len(stages) = 2 /\ stages[2].out.kind = "return"

\* C9 witness: a run ended after transform raised, load was not called.
C9_Witness ==
  /\ pc = "idle"
  /\ Len(stages) = 2
  /\ stages[1].out.kind = "return"
  /\ stages[2].out.kind = "raise"

DefaultOperations ==
  <<"impute_missing_values", "one_hot_encode", "validate_data_types">>

\* C10: a run without a step list calls imputation, one-hot encoding and
\* validation in this order, and the validation pass is not fatal: once it
\* is called, transform returns and the run goes on to call load.
C10_DefaultValidationNotFatal ==
  (run_default /\ Len(stages) >= 2) =>
    /\ \E n \in 0..Len(DefaultOperations) :
         stages[2].applied = SubSeq(DefaultOperations, 1, n)
    /\ stages[2].out.kind = "return" => stages[2].applied = DefaultOperations
    /\ stages[2].applied = DefaultOperations =>
         /\ stages[2].out.kind = "return"
         /\ pc = "run_load" \/ Len(stages) = 3

\* The outcomes of a request that failed on the network: a connection
\* error or a timeout, both RequestException.
FetchFailures == {"RequestException"}

\* The fetch of the run's extract stage failed.
RunFetchFailed ==
  /\ Len(stages) >= 1
  /\ \E k \in 1..Len(stages[1].fetched) : stages[1].fetched[k] \in FetchFailures

\* C11: in a run whose fetch fails, the run ends with the extract stage: no
\* stage is called after it, so no transformation operation is called and
\* no operation is made on the persistence collaborator, and run_pipeline
\* returns False.
C11_FetchFailureAbortsRun ==
  RunFetchFailed =>
    /\ pc = "idle"
    /\ Len(stages) = 1
    /\ run_ret = Return(PyBool(FALSE))

\* C12: extract('web_scraping') never returns an empty table to its caller
\* and never stores one as raw_data.
C12_EmptyTableIsNotExtracted ==
  /\ IsDataFrame(raw_data) => ~empty(raw_data)
  /\ (last # Unset /\ last.op = "extract" /\ last.out.kind = "return")
       => ~empty(last.out.value)

\* The most recent stage call is extract(source) with a source that is not
\* 'web_scraping'.
UnsupportedExtract(call) ==
  /\ call # Unset
  /\ call.op = "extract"
  /\ call.args.source # "web_scraping"

\* C13: extract(source) with a source other than 'web_scraping' raises
\* ValueError, makes no request, and leaves raw_data and transformed_data as
\* they were before the call.
C13_UnsupportedSourceRaises ==
  [][UnsupportedExtract(last') =>
       /\ last'.out = Raise("ValueError")
       /\ last'.fetched = <<>>
       /\ raw_data' = raw_data
       /\ transformed_data' = transformed_data]_vars

\* C13 witness: extract('csv') raised on a pipeline that holds an extracted
\* and a transformed table.
C13_Witness ==
  /\ UnsupportedExtract(last)
  /\ last.out.kind = "raise"
  /\ IsDataFrame(raw_data) /\ ~empty(raw_data)
  /\ IsDataFrame(transformed_data)

\* The most recent stage call is load(destination) with a destination that
\* is not 'postgres'.
UnsupportedLoad(call) ==
  /\ call # Unset
  /\ call.op = "load"
  /\ call.args.destination # "postgres"

\* C14: load(destination) with a destination other than 'postgres', on a
\* pipeline on which transform() has returned, raises ValueError; no loader
\* is constructed, self.loader stays what it was and nothing is written.
C14_UnsupportedDestinationRaises ==
  [][(UnsupportedLoad(last') /\ has_transformed') =>
       /\ last'.out = Raise("ValueError")
       /\ last'.persist = <<>>
       /\ loader' = loader]_vars

\* C14 witness: load('csv') raised on a pipeline whose transformed table has
\* rows and that has not constructed a loader.
C14_Witness ==
  /\ UnsupportedLoad(last)
  /\ has_transformed
  /\ ~empty(transformed_data)
  /\ last.out.kind = "raise"
  /\ loader = None

\* The step names transform dispatches on.
RecognizedFunctions ==
  {"handle_missing_values", "encode_categorical", "validate_data", "create_features"}

IsRecognized(transformation) == transformation.function \in RecognizedFunctions

\* The most recent stage call is transform(list) on an extracted table, with
\* a list that holds a step whose name is not recognized.
TransformWithUnknownStep ==
  /\ last # Unset
  /\ last.op = "transform"
  /\ raw_data # None
  /\ \E k \in 1..Len(last.args.transformations) :
       ~IsRecognized(last.args.transformations[k])

\* C15: a step whose name is not recognized is skipped. The call ends as
\* the call with the list without these steps ends: same outcome, same
\* operations called in the same order, same transformed_data; a list of
\* such steps alone returns the copy of raw_data.
C15_UnknownStepSkipped ==
  TransformWithUnknownStep =>
    /\ \E without \in {transform(raw_data, None,
                                 SelectSeq(last.args.transformations, IsRecognized))} :
         /\ last.out = without.out
         /\ last.applied = without.applied
         /\ transformed_data = without.transformed_data
    /\ (\A k \in 1..Len(last.args.transformations) :
          ~IsRecognized(last.args.transformations[k]))
         => /\ last.out = Return(raw_data)
            /\ last.applied = <<>>
            /\ transformed_data = raw_data

\* C15 witness: in [scale_features, encode_categorical] the encoding, after
\* the skipped step, was applied and changed the table.
C15_Witness ==
  /\ TransformWithUnknownStep
  /\ Len(last.args.transformations) = 2
  /\ last.args.transformations[1].function = "scale_features"
  /\ last.applied = <<"one_hot_encode">>
  /\ last.out.kind = "return"
  /\ transformed_data # raw_data

\* The most recent stage call was made directly, outside run_pipeline.
CalledDirectly == last # Unset /\ pc = "idle" /\ stages = <<>>

\* C17: extract(), called directly, raises an error of the kind of the
\* fetch failure when its request fails; it does not return.
C17_ExtractPropagatesFetchFailure ==
  (CalledDirectly /\ last.op = "extract"
     /\ \E k \in 1..Len(last.fetched) : last.fetched[k] \in FetchFailures)
    => /\ last.out.kind = "raise"
       /\ last.out.exc \in FetchFailures

\* The imputation step of the default list.
DefaultImputation ==
  Step("handle_missing_values", [strategy |-> EmptyDict, default_strategy |-> "mean"])

\* The most recent stage call is transform(list) on an extracted table, with
\* a list of one or more imputation steps and nothing else.
ImputationOnly ==
  /\ last # Unset
  /\ last.op = "transform"
  /\ raw_data # None
  /\ Len(last.args.transformations) >= 1
  /\ \A k \in 1..Len(last.args.transformations) :
       last.args.transformations[k].function = "handle_missing_values"

NoMissingValue(df) ==
  \A i \in 1..NRows(df) : \A j \in 1..NCols(df) : ~IsNull(df.rows[i][j])

\* C18: impute_missing_values on a table without a missing value returns a
\* table equal to its input, whatever the strategy map and the default
\* strategy, and so does a second application.
C18_ImputeWithoutMissingIsIdentity ==
  (ImputationOnly /\ NoMissingValue(raw_data)) =>
    /\ last.out = Return(raw_data)
    /\ transformed_data = raw_data

\* The numerals of the tables and their values.
Numerals == {"1", "2", "3", "4", "6"}
NumeralValue(t) ==
  CASE t = "1" -> 1 [] t = "2" -> 2 [] t = "3" -> 3 [] t = "4" -> 4 [] t = "6" -> 6

\* The cells of a column that hold a value.
Present(col) == SelectSeq(col, LAMBDA v : v # "")

RECURSIVE SumOf(_)
SumOf(col) == IF col = <<>> THEN 0 ELSE NumeralValue(Head(col)) + SumOf(Tail(col))

\* Column j holds numerals and empty cells only, and some numeral.
NumericValued(df, j) ==
  /\ Present(ColumnValues(df, j)) # <<>>
  /\ \A i \in 1..NRows(df) : df.rows[i][j] \in Numerals \cup {""}

\* The cell holds the mean of the present values of the column.
IsMeanOf(cell, col) ==
  \E n \in 0..9 :
    /\ cell \in {ToString(n), ToString(n) \o ".0"}
    /\ n * Len(Present(col)) = SumOf(Present(col))

\* C19: of the tables [[H1,H2],[1,2]] and [[A,B,C],['',2,3],[4,'',6]] the
\* second is extracted, and after extract followed by the default imputation
\* every empty cell of a column of numerals holds the mean of the present
\* values of its column.
C19_EmptyNumericCellsGetMean ==
  /\ IsDataFrame(raw_data) => raw_data.columns # <<"H1", "H2">>
  /\ (ImputationOnly /\ last.args.transformations = <<DefaultImputation>>
        /\ last.out.kind = "return")
       => \A j \in 1..NCols(raw_data) :
            NumericValued(raw_data, j) =>
              \A i \in 1..NRows(raw_data) :
                raw_data.rows[i][j] = "" =>
                  IsMeanOf(transformed_data.rows[i][j], ColumnValues(raw_data, j))

\* The most recent stage call is load('postgres', **kwargs) on a pipeline on
\* which transform() has returned.
PostgresLoad ==
  /\ last # Unset
  /\ last.op = "load"
  /\ last.args.destination = "postgres"
  /\ has_transformed

\* The load_dataframe calls the most recent stage call made.
LoadDataframeCalls == SelectSeq(last.persist, LAMBDA o : o.op = "load_dataframe")

\* The table name and the write mode of the caller, or the defaults.
CallerTableName ==
  IF "table_name" \in DOMAIN last.args.kwargs
    THEN last.args.kwargs.table_name ELSE "cacao_ratings"
CallerWriteMode ==
  IF "if_exists" \in DOMAIN last.args.kwargs
    THEN last.args.kwargs.if_exists ELSE "replace"

\* C20: load('postgres', ...) calls load_dataframe at most once, with the
\* transformed table, the caller's table name and write mode or their
\* defaults; when it returns it has made the call, and its outcome is
\* exactly the outcome of that call.
C20_LoadDelegatesToLoader ==
  PostgresLoad =>
    /\ Len(LoadDataframeCalls) <= 1
    /\ last.out.kind = "return" => Len(LoadDataframeCalls) = 1
    /\ \A k \in 1..Len(LoadDataframeCalls) :
         /\ LoadDataframeCalls[k].df = transformed_data
         /\ LoadDataframeCalls[k].table_name = CallerTableName
         /\ LoadDataframeCalls[k].if_exists = CallerWriteMode
         /\ last.out = LoadDataframeCalls[k].out

\* C20 witness: load('postgres', table_name='cacao_ratings_processed',
\* if_exists='append') returned the True that load_dataframe returned.
C20_Witness ==
  /\ PostgresLoad
  /\ last.args.kwargs # EmptyDict
  /\ Len(LoadDataframeCalls) = 1
  /\ LoadDataframeCalls[1].table_name = "cacao_ratings_processed"
  /\ LoadDataframeCalls[1].out = Return(PyBool(TRUE))
  /\ last.out = Return(PyBool(TRUE))

\* The most recent stage call is transform(list) on an extracted table.
TransformOfExtracted ==
  /\ last # Unset
  /\ last.op = "transform"
  /\ raw_data # None

\* The call transform([first] + rest) ends as transform([first]) followed,
\* when that returned, by transform(rest) on the table it returned.
RECURSIVE ComposedSteps(_, _)
ComposedSteps(df, transformations) ==
  IF transformations = <<>>
    THEN [raw_data |-> df, transformed_data |-> df, out |-> Return(df),
          applied |-> <<>>]
  ELSE With(transform(df, None, <<Head(transformations)>>),
            LAMBDA first :
              IF first.out.kind = "raise" THEN first
              ELSE With(ComposedSteps(first.transformed_data, Tail(transformations)),
                        LAMBDA rest :
                          [raw_data |-> df,
                           transformed_data |-> rest.transformed_data,
                           out |-> rest.out,
                           applied |-> first.applied \o rest.applied]))

\* C25: transform applies the steps in the order of the list, the first to
\* the copy of raw_data, each other one to the table the step before it
\* returned: outcome, operations called and transformed_data are those of
\* the one-step calls made one after the other, left to right.
C25_StepsComposeInListOrder ==
  TransformOfExtracted =>
    \E composed \in {ComposedSteps(raw_data, last.args.transformations)} :
      /\ last.out = composed.out
      /\ last.applied = composed.applied
      /\ transformed_data = composed.transformed_data

\* C25 witness: [encode_categorical, validate_data] returned the encoded
\* table after both operations were called in this order.
C25_Witness ==
  /\ TransformOfExtracted
  /\ last.applied = <<"one_hot_encode", "validate_data_types">>
  /\ last.out = Return(transformed_data)
  /\ transformed_data # raw_data

\* C26: a transform call, whether it returns or raises, leaves raw_data
\* equal to what it was before the call.
C26_TransformKeepsRawData ==
  [][(last' # Unset /\ last'.op = "transform") => raw_data' = raw_data]_vars

\* C26 witness: a transform call changed the working table and raised in a
\* later step; raw_data holds the extracted table.
C26_Witness ==
  /\ TransformOfExtracted
  /\ ~empty(raw_data)
  /\ last.out.kind = "raise"
  /\ transformed_data # raw_data

\* The most recent stage call is transform([step]) on an extracted table,
\* step being a one-hot encoding with drop_first=True.
EncodedDropFirst ==
  /\ TransformOfExtracted
  /\ Len(last.args.transformations) = 1
  /\ last.args.transformations[1].function = "encode_categorical"
  /\ last.args.transformations[1].params.drop_first = TRUE

\* The positions of the columns of raw_data the step encodes: those named
\* in columns, or the text and categorical ones for columns=None.
EncodedPositions ==
  LET columns == last.args.transformations[1].params.columns
  IN {j \in 1..NCols(raw_data) :
        IF columns = None
          THEN raw_data.dtypes[j] \in {"object", "category"}
          ELSE \E k \in 1..Len(columns.names) : columns.names[k] = raw_data.columns[j]}

\* The distinct values of column j of raw_data, none of which is missing.
DistinctValues(j) == {raw_data.rows[i][j] : i \in 1..NRows(raw_data)}

\* The first of the values in sorted order.
FirstLevel(vs) == CHOOSE v \in vs : \A w \in vs : Rank(v) <= Rank(w)

\* The positions in transformed_data of the indicator columns of column j.
IndicatorPositions(j) ==
  {p \in 1..NCols(transformed_data) :
     \E v \in DistinctValues(j) :
       transformed_data.columns[p] = raw_data.columns[j] \o "_" \o v}

\* The positions of raw_data's columns that are not encoded, in order.
KeptPositions ==
  SelectSeq([j \in 1..NCols(raw_data) |-> j], LAMBDA j : j \notin EncodedPositions)

\* C27: one_hot_encode with drop_first=True returns a table that keeps the
\* rows, keeps the columns it does not encode with their values, lacks each
\* encoded column and has for it one indicator column per distinct value
\* but the first, k-1 for k values; with columns=None the encoded columns
\* are the text and categorical ones.
C27_OneHotDropFirst ==
  EncodedDropFirst =>
    /\ last.out.kind = "return"
    /\ NRows(transformed_data) = NRows(raw_data)
    /\ \A k \in 1..Len(KeptPositions) :
         /\ transformed_data.columns[k] = raw_data.columns[KeptPositions[k]]
         /\ ColumnValues(transformed_data, k) = ColumnValues(raw_data, KeptPositions[k])
    /\ \A j \in EncodedPositions :
         /\ ~InColumns(transformed_data, raw_data.columns[j])
         /\ NRows(raw_data) > 0 =>
              /\ Cardinality(IndicatorPositions(j)) = Cardinality(DistinctValues(j)) - 1
              /\ \A v \in DistinctValues(j) :
                   IF v = FirstLevel(DistinctValues(j))
                     THEN ~InColumns(transformed_data, raw_data.columns[j] \o "_" \o v)
                     ELSE \E p \in IndicatorPositions(j) :
                            /\ transformed_data.columns[p] = raw_data.columns[j] \o "_" \o v
                            /\ \A i \in 1..NRows(raw_data) :
                                 transformed_data.rows[i][p] =
                                   (IF raw_data.rows[i][j] = v THEN "True" ELSE "False")
    /\ NCols(transformed_data) =
         Len(KeptPositions)
         + Cardinality(UNION {IndicatorPositions(j) : j \in EncodedPositions})

\* The most recent stage call is a load that called load_dataframe.
LoadReachedLoader ==
  /\ last # Unset
  /\ last.op = "load"
  /\ \E k \in 1..Len(last.persist) : last.persist[k].op = "load_dataframe"

\* C28: whenever load calls load_dataframe, the table it passes is the one
\* the most recent transform() call returned, and that call was made after
\* the most recent extract() that returned: never a table derived from an
\* older extraction, never one left by a transform() that raised.
C28_LoadPersistsCurrentTable == LoadReachedLoader => up_to_date

\* The extract stage of the run returned the empty table.
RunExtractedEmpty ==
  /\ Len(stages) >= 1
  /\ stages[1].out.kind = "return"
  /\ empty(stages[1].out.value)

\* C30: a run whose extraction gave the empty table writes nothing: to_sql
\* is not called, a load_dataframe call returns False, and the run returns
\* False.
C30_EmptyExtractionWritesNothing ==
  RunExtractedEmpty =>
    /\ \A i \in 1..Len(stages) : \A k \in 1..Len(stages[i].persist) :
         /\ stages[i].persist[k].op # "to_sql"
         /\ stages[i].persist[k].op = "load_dataframe"
              => stages[i].persist[k].out = Return(PyBool(FALSE))
    /\ pc = "idle" => run_ret = Return(PyBool(FALSE))

\* C30 witness: the run reached load, load_dataframe was called with the
\* empty table and returned False, and so did the run.
C30_Witness ==
  /\ RunExtractedEmpty
  /\ pc = "idle"
  /\ Len(stages) = 3
  /\ Len(stages[3].persist) = 2
  /\ stages[3].persist[2].op = "load_dataframe"
  /\ empty(stages[3].persist[2].df)
  /\ stages[3].persist[2].out = Return(PyBool(FALSE))
  /\ run_ret = Return(PyBool(FALSE))

(***************************************************************************)
(* Claims about failures of the scraping routines, checked under           *)
(* SpecScrape.                                                             *)
(***************************************************************************)
\* What manual_table_scraping returns for a document without a table.
NoTableFound == manual_table_scraping(<<>>)

\* C16: a manual_table_scraping call in which processing the document
\* raised gives its caller a result that is neither the result of a
\* document without a table nor the empty table.
C16_HardFailureIsExplicit ==
  scrape_err # Unset =>
    /\ scrape_err # NoTableFound
    /\ scrape_err # EmptyDataFrame

(***************************************************************************)
(* Claims about impute_missing_values, checked under SpecImpute.           *)
(***************************************************************************)
\* C29: after impute_missing_values returns normally, the returned table
\* has no missing value in any column, whatever the per-column strategy
\* (mean, median, mode, ffill, bfill, a number) and the default strategy.
C29_ImputedTableHasNoMissingValue ==
  (impute_out # Unset /\ impute_out.kind = "return")
    => NoMissingValue(impute_out.value)

====
